---- MODULE Spec2Model ----
(***************************************************************************)
(* A model of the Regex Find/Replace plugin of src/src/main.ts: the        *)
(* find/replace modal (live preview, confirmation gate, commit), the       *)
(* preview generator with its substitution engine, and the pattern         *)
(* history.                                                                *)
(*                                                                         *)
(* Texts are sequences of characters; a character is a one-letter string,  *)
(* or one of the names LF (line break), TAB, BS (backslash), NUL (\x00),   *)
(* BQ (backtick), SQ (apostrophe).                                         *)
(* Positions are 1-based here; the 0-based positions of the source are     *)
(* written pos - 1 where they are stored.                                  *)
(***************************************************************************)
EXTENDS Integers, Sequences, FiniteSets, TLC

LF == "LF"

TAB == "TAB"

BS == "BS"

NUL == "NUL"

\* the backtick and the apostrophe
BQ == "BQ"

SQ == "SQ"

(***************************************************************************)
(* String primitives of the host language (ECMAScript).                    *)
(***************************************************************************)

\* needle occurs in s at position i
MatchesAt(s, i, needle) ==
  /\ i >= 1
  /\ i + Len(needle) - 1 <= Len(s)
  /\ \A k \in 1..Len(needle) : s[i + k - 1] = needle[k]

RECURSIVE IndexOfFrom(_, _, _)
\* String.prototype.indexOf(needle, i): the first position >= i, 0 when absent
IndexOfFrom(s, needle, i) ==
  IF i + Len(needle) - 1 > Len(s) THEN 0
  ELSE IF MatchesAt(s, i, needle) THEN i
  ELSE IndexOfFrom(s, needle, i + 1)

Includes(s, needle) == IndexOfFrom(s, needle, 1) # 0

RECURSIVE SplitFrom(_, _, _)
SplitFrom(s, sep, i) ==
  LET j == IndexOfFrom(s, sep, i)
  IN  IF j = 0 THEN << SubSeq(s, i, Len(s)) >>
      ELSE << SubSeq(s, i, j - 1) >> \o SplitFrom(s, sep, j + Len(sep))

\* String.prototype.split(sep) with a string separator
Split(s, sep) ==
  IF sep = << >> THEN [k \in 1..Len(s) |-> << s[k] >>]
  ELSE SplitFrom(s, sep, 1)

RECURSIVE Join(_, _)
\* Array.prototype.join(sep)
Join(pieces, sep) ==
  IF Len(pieces) = 0 THEN << >>
  ELSE IF Len(pieces) = 1 THEN pieces[1]
  ELSE pieces[1] \o sep \o Join(Tail(pieces), sep)

Digits == << "0", "1", "2", "3", "4", "5", "6", "7", "8", "9" >>

IsDigit(c) == \E k \in 1..10 : Digits[k] = c

DigitVal(c) == (CHOOSE k \in 1..10 : Digits[k] = c) - 1

RECURSIVE NumStr(_)
\* the decimal text of a natural number (string concatenation '\\$' + n)
NumStr(n) ==
  IF n < 10 THEN << Digits[n + 1] >>
  ELSE NumStr(n \div 10) \o << Digits[(n % 10) + 1] >>

RECURSIVE GetSubstitution(_, _, _, _, _, _)
\* The replacement-template expansion String.prototype.replace applies to a
\* replacement string: $$, $&, $BQ, $SQ, $n and $nn; any other $ is literal.
\* position is the start of the match in str, captures the captured texts.
GetSubstitution(matched, str, position, captures, template, i) ==
  IF i > Len(template) THEN << >>
  ELSE IF template[i] # "$" \/ i = Len(template)
    THEN << template[i] >> \o GetSubstitution(matched, str, position, captures, template, i + 1)
  ELSE
    LET d == template[i + 1]
        m == Len(captures)
        rest(k) == GetSubstitution(matched, str, position, captures, template, k)
    IN  CASE d = "$" -> << "$" >> \o rest(i + 2)
          [] d = "&" -> matched \o rest(i + 2)
          [] d = BQ -> SubSeq(str, 1, position - 1) \o rest(i + 2)
          [] d = SQ -> SubSeq(str, position + Len(matched), Len(str)) \o rest(i + 2)
          [] IsDigit(d) ->
               LET two == IF i + 2 <= Len(template) /\ IsDigit(template[i + 2])
                          THEN 10 * DigitVal(d) + DigitVal(template[i + 2])
                          ELSE 0
               IN  IF two >= 1 /\ two <= m THEN captures[two] \o rest(i + 3)
                   ELSE IF DigitVal(d) >= 1 /\ DigitVal(d) <= m
                     THEN captures[DigitVal(d)] \o rest(i + 2)
                   ELSE << "$" >> \o rest(i + 1)
          [] OTHER -> << "$" >> \o rest(i + 1)

RECURSIVE ReplaceLitFrom(_, _, _, _)
ReplaceLitFrom(s, needle, template, i) ==
  LET j == IndexOfFrom(s, needle, i)
  IN  IF j = 0 THEN SubSeq(s, i, Len(s))
      ELSE SubSeq(s, i, j - 1)
           \o GetSubstitution(needle, s, j, << >>, template, 1)
           \o ReplaceLitFrom(s, needle, template, j + Len(needle))

\* s.replace(/needle/g, template) for a pattern that is a literal text without
\* groups: the template is still expanded as a replacement string.
ReplaceAllLit(s, needle, template) == ReplaceLitFrom(s, needle, template, 1)

(***************************************************************************)
(* The regular expressions of the host language, for the part of their     *)
(* syntax the find texts of this model use: literal characters, the        *)
(* escapes \n \t and \<syntax character>, `.', `^', `$', capturing groups  *)
(* (nested or not), a greedy `*' on a single character or `.', and `['     *)
(* without a closing bracket (a syntax error).  A compiled pattern is a    *)
(* sequence of instructions run by a backtracking matcher.                 *)
(***************************************************************************)

SyntaxChars == { "(", ")", "*", ".", "^", "$", "[", BS }

Instr(op, c, n) == [op |-> op, c |-> c, n |-> n]

RECURSIVE Parse(_, _, _, _, _)
\* new RegExp(p, flags): valid = FALSE stands for the SyntaxError it throws
Parse(p, i, prog, stack, ngroups) ==
  LET bad == [valid |-> FALSE, prog |-> << >>, ngroups |-> 0]
      lastOp == IF Len(prog) = 0 THEN "none" ELSE prog[Len(prog)].op
  IN
  IF i > Len(p)
    THEN IF Len(stack) = 0 THEN [valid |-> TRUE, prog |-> prog, ngroups |-> ngroups]
         ELSE bad
  ELSE
    CASE p[i] = BS ->
           IF i = Len(p) THEN bad
           ELSE LET d == p[i + 1]
                    lit == IF d = "n" THEN LF ELSE IF d = "t" THEN TAB ELSE d
                IN  Parse(p, i + 2, Append(prog, Instr("char", lit, 0)), stack, ngroups)
      [] p[i] = "(" ->
           Parse(p, i + 1, Append(prog, Instr("open", "", ngroups + 1)),
                 << ngroups + 1 >> \o stack, ngroups + 1)
      [] p[i] = ")" ->
           IF Len(stack) = 0 THEN bad
           ELSE Parse(p, i + 1, Append(prog, Instr("close", "", Head(stack))),
                      Tail(stack), ngroups)
      [] p[i] = "*" ->
           IF lastOp \notin {"char", "any"} THEN bad
           ELSE Parse(p, i + 1,
                      [prog EXCEPT ![Len(prog)] =
                         Instr(IF lastOp = "char" THEN "starchar" ELSE "starany", @.c, 0)],
                      stack, ngroups)
      [] p[i] = "[" -> bad
      [] p[i] = "^" -> Parse(p, i + 1, Append(prog, Instr("bol", "", 0)), stack, ngroups)
      [] p[i] = "$" -> Parse(p, i + 1, Append(prog, Instr("eol", "", 0)), stack, ngroups)
      [] p[i] = "." -> Parse(p, i + 1, Append(prog, Instr("any", "", 0)), stack, ngroups)
      [] OTHER -> Parse(p, i + 1, Append(prog, Instr("char", p[i], 0)), stack, ngroups)

\* new RegExp(searchString, flags)
Compile(p) == Parse(p, 1, << >>, << >>, 0)

\* canonicalisation of the i flag
Fold(c) == IF c = "A" THEN "a" ELSE c

CharEq(a, b, ci) == IF ci THEN Fold(a) = Fold(b) ELSE a = b

\* the single-character atoms
AtomOk(op, c, text, pos, ci) ==
  /\ pos <= Len(text)
  /\ IF op \in {"char", "starchar"} THEN CharEq(text[pos], c, ci)
     ELSE text[pos] # LF

RECURSIVE Span(_, _, _, _, _)
\* how many consecutive characters from pos the atom accepts
Span(op, c, text, pos, ci) ==
  IF AtomOk(op, c, text, pos, ci) THEN 1 + Span(op, c, text, pos + 1, ci) ELSE 0

NoMatch == [ok |-> FALSE, end |-> 0, caps |-> << >>]

RECURSIVE Run(_, _, _, _, _, _, _)
RECURSIVE StarTry(_, _, _, _, _, _, _, _)
\* the matcher: the instructions from pc on against text from pos on; the first
\* success in priority order (a star takes the most it can, then gives back)
Run(prog, pc, text, pos, caps, ci, ml) ==
  IF pc > Len(prog) THEN [ok |-> TRUE, end |-> pos, caps |-> caps]
  ELSE
    LET ins == prog[pc]
    IN  CASE ins.op \in {"char", "any"} ->
               IF AtomOk(ins.op, ins.c, text, pos, ci)
               THEN Run(prog, pc + 1, text, pos + 1, caps, ci, ml)
               ELSE NoMatch
          [] ins.op = "bol" ->
               IF pos = 1 \/ (ml /\ text[pos - 1] = LF)
               THEN Run(prog, pc + 1, text, pos, caps, ci, ml)
               ELSE NoMatch
          [] ins.op = "eol" ->
               IF pos = Len(text) + 1 \/ (ml /\ text[pos] = LF)
               THEN Run(prog, pc + 1, text, pos, caps, ci, ml)
               ELSE NoMatch
          [] ins.op = "open" ->
               Run(prog, pc + 1, text, pos, [caps EXCEPT ![ins.n] = << pos, pos >>], ci, ml)
          [] ins.op = "close" ->
               Run(prog, pc + 1, text, pos, [caps EXCEPT ![ins.n] = << @[1], pos >>], ci, ml)
          [] OTHER ->
               StarTry(prog, pc, text, pos, Span(ins.op, ins.c, text, pos, ci), caps, ci, ml)

StarTry(prog, pc, text, pos, k, caps, ci, ml) ==
  LET r == Run(prog, pc + 1, text, pos + k, caps, ci, ml)
  IN  IF r.ok THEN r
      ELSE IF k = 0 THEN NoMatch
      ELSE StarTry(prog, pc, text, pos, k - 1, caps, ci, ml)

NoExec == [found |-> FALSE, index |-> 0, end |-> 0, m0 |-> << >>, groups |-> << >>]

RECURSIVE ExecFrom(_, _, _, _, _)
\* RegExp.prototype.exec of a global regex with lastIndex = from - 1: the
\* leftmost match starting at from or later.  index is the 1-based start, end
\* the position after the match, m0 the matched text (match[0]), groups the
\* captured texts (match[1..]).
ExecFrom(re, text, from, ci, ml) ==
  IF from > Len(text) + 1 THEN NoExec
  ELSE
    LET r == Run(re.prog, 1, text, from, [g \in 1..re.ngroups |-> << 0, 0 >>], ci, ml)
    IN  IF r.ok
        THEN [found |-> TRUE, index |-> from, end |-> r.end,
              m0 |-> SubSeq(text, from, r.end - 1),
              groups |-> [g \in 1..re.ngroups |->
                            SubSeq(text, r.caps[g][1], r.caps[g][2] - 1)]]
        ELSE ExecFrom(re, text, from + 1, ci, ml)

RECURSIVE MatchAllFrom(_, _, _, _, _)
MatchAllFrom(re, text, from, ci, ml) ==
  LET r == ExecFrom(re, text, from, ci, ml)
  IN  IF ~r.found THEN << >>
      ELSE << r >> \o MatchAllFrom(re, text,
                                   IF r.end = r.index THEN r.end + 1 ELSE r.end, ci, ml)

\* text.match(regex) of a global regex: every match, an empty match advancing
\* the scan by one character
MatchAll(re, text, ci, ml) == MatchAllFrom(re, text, 1, ci, ml)

RECURSIVE ReplaceMatches(_, _, _, _, _)
ReplaceMatches(text, ms, k, cursor, template) ==
  IF k > Len(ms) THEN SubSeq(text, cursor, Len(text))
  ELSE SubSeq(text, cursor, ms[k].index - 1)
       \o GetSubstitution(ms[k].m0, text, ms[k].index, ms[k].groups, template, 1)
       \o ReplaceMatches(text, ms, k + 1, ms[k].end, template)

\* text.replace(regex, template) of a global regex
RegexReplace(text, re, ci, ml, template) ==
  ReplaceMatches(text, MatchAll(re, text, ci, ml), 1, 1, template)

(***************************************************************************)
(* The escape preprocessor, the substitution engine and the preview        *)
(* generator.                                                              *)
(***************************************************************************)

\* searchString.replace(/\\n/gm, '\n') when processLineBreak, then
\* searchString.replace(/\\t/gm, '\t') when processTab
expandEscapes(text, processLineBreak, processTab) ==
  LET t1 == IF processLineBreak THEN ReplaceAllLit(text, << BS, "n" >>, << LF >>) ELSE text
  IN  IF processTab THEN ReplaceAllLit(t1, << BS, "t" >>, << TAB >>) ELSE t1

\* a $$ that is turned into its $ at once
plainDollar == << "$" >>

dollarPlaceholder == << NUL, "D", "O", "L", "L", "A", "R", NUL >>

RECURSIVE blankGroups(_, _, _)
\* every $n from $9 down to $1 replaced, by nothing when the match has no group n
blankGroups(text, groups, n) ==
  IF n < 1 THEN text
  ELSE blankGroups(ReplaceAllLit(text, << "$" >> \o NumStr(n),
                                 IF n <= Len(groups) THEN groups[n] ELSE << >>),
                   groups, n - 1)

replaceGroupsBlanking(text, groups, n) == blankGroups(text, groups, 9)

RECURSIVE replaceGroups(_, _, _)
\* for (n = match.length - 1; n >= 1; n--) replace(new RegExp('\\$' + n, 'g'), groupValue)
replaceGroups(text, groups, n) ==
  IF n < 1 THEN text
  ELSE replaceGroups(ReplaceAllLit(text, << "$" >> \o NumStr(n), groups[n]), groups, n - 1)

\* the replacement computed for one match m of a line (the preview's own
\* resolution of $$, $BQ, $SQ, $& and $n, each step a global replace)
replacementTextOf(replaceString, line, m) ==
  LET r1 == ReplaceAllLit(replaceString, << "$", "$" >>, dollarPlaceholder)
      beforeMatch == SubSeq(line, 1, m.index - 1)
      r2 == ReplaceAllLit(r1, << "$", BQ >>, beforeMatch)
      afterMatch == SubSeq(line, m.end, Len(line))
      r3 == ReplaceAllLit(r2, << "$", SQ >>, afterMatch)
      r4 == ReplaceAllLit(r3, << "$", "&" >>, m.m0)
      r5 == replaceGroups(r4, m.groups, Len(m.groups))
  IN  ReplaceAllLit(r5, dollarPlaceholder, << "$" >>)

MatchPreview(i, line, matchedText, replacement, matchIndex, lineAfter, start, end) ==
  [lineNumber |-> i, lineContent |-> line, matchedText |-> matchedText,
   replacementText |-> replacement, matchIndex |-> matchIndex,
   lineAfterReplace |-> lineAfter, matchStartInLine |-> start - 1,
   matchEndInLine |-> end - 1, isMultiLine |-> Includes(matchedText, << LF >>)]

\* previews.push({...}) for the match m of line i, rep its replacement text
regexPreview(i, line, m, rep, matchIndex) ==
  MatchPreview(i, line, m.m0, rep, matchIndex,
               SubSeq(line, 1, m.index - 1) \o rep \o SubSeq(line, m.end, Len(line)),
               m.index, m.end)

RECURSIVE regexLineLoop(_, _, _, _, _, _, _, _)
RECURSIVE regexLineStep(_, _, _, _, _, _, _, _)
\* while ((match = lineRegex.exec(line)) !== null): exec resumes at lastIndex,
\* which is the end of the previous match (and so the same place after an
\* empty match)
regexLineLoop(re, ci, replaceString, i, line, from, previews, limit) ==
  regexLineStep(re, ci, replaceString, i, line, ExecFrom(re, line, from, ci, FALSE),
                previews, limit)

\* the body of the loop for the match m
regexLineStep(re, ci, replaceString, i, line, m, previews, limit) ==
  IF ~m.found \/ Len(previews) >= limit THEN previews
  ELSE regexLineLoop(re, ci, replaceString, i, line, m.end,
                     Append(previews,
                            regexPreview(i, line, m,
                                         replacementTextOf(replaceString, line, m),
                                         Len(previews))),
                     limit)

RECURSIVE regexLines(_, _, _, _, _, _, _)
regexLines(re, ci, replaceString, lines, i, previews, limit) ==
  IF i > Len(lines) \/ Len(previews) >= limit THEN previews
  ELSE regexLines(re, ci, replaceString, lines, i + 1,
                  regexLineLoop(re, ci, replaceString, i, lines[i], 1, previews, limit), limit)

\* the previews after line i in plain-text mode, matchStart = line.indexOf(searchString)
plainPreview(searchString, replaceString, i, line, matchStart, previews) ==
  IF matchStart = 0 THEN previews
  ELSE Append(previews,
              MatchPreview(i, line, searchString, replaceString, Len(previews),
                           Join(Split(line, searchString), replaceString),
                           matchStart, matchStart + Len(searchString)))

RECURSIVE plainLines(_, _, _, _, _, _)
plainLines(searchString, replaceString, lines, i, previews, limit) ==
  IF i > Len(lines) \/ Len(previews) >= limit THEN previews
  ELSE plainLines(searchString, replaceString, lines, i + 1,
                  plainPreview(searchString, replaceString, i, lines[i],
                               IndexOfFrom(lines[i], searchString, 1), previews),
                  limit)

\* the regex branch, re the compiled searchString (the catch block when it is
\* no regular expression)
regexPreviews(text, lines, re, replaceString, caseInsensitive, multilineMatch, limit) ==
  IF ~re.valid THEN [previews |-> << >>, totalCount |-> 0]
  ELSE [previews |-> regexLines(re, caseInsensitive, replaceString, lines, 1, << >>, limit),
        totalCount |-> Len(MatchAll(re, text, caseInsensitive, multilineMatch))]

generateMatchPreviews(text, searchString, replaceString, useRegEx, caseInsensitive, multilineMatch, limit) ==
  IF useRegEx
  THEN regexPreviews(text, Split(text, << LF >>), Compile(searchString), replaceString,
                     caseInsensitive, multilineMatch, limit)
  ELSE [previews |-> plainLines(searchString, replaceString, Split(text, << LF >>), 1,
                                << >>, limit),
        totalCount |-> Len(Split(text, searchString)) - 1]

(***************************************************************************)
(* fixMarkdownFormatting: the five line rules outside fences, then the     *)
(* trailing-whitespace pass.  A line is a sequence of characters; each     *)
(* regular expression of the function is written out as the positions its  *)
(* match takes, backtracking included.                                     *)
(***************************************************************************)

\* a no-break space: \s but not [ \t]
NBSP == "NBSP"

\* the characters \s matches inside a line
Whitespace == { " ", TAB, NBSP }

\* [ \t]
Blanks == { " ", TAB }

Take(line, n) == SubSeq(line, 1, n)

Drop(line, n) == SubSeq(line, n + 1, Len(line))

RECURSIVE CountRun(_, _, _)
\* the length of the longest run of characters of S that starts at position i
CountRun(line, i, S) ==
  IF i <= Len(line) /\ line[i] \in S THEN 1 + CountRun(line, i + 1, S) ELSE 0

RECURSIVE TrimEnd(_, _)
\* the line without its trailing characters of S
TrimEnd(line, S) ==
  IF line # << >> /\ line[Len(line)] \in S THEN TrimEnd(Take(line, Len(line) - 1), S)
  ELSE line

\* String.prototype.trim
Trim(line) == TrimEnd(Drop(line, CountRun(line, 1, Whitespace)), Whitespace)

\* String.prototype.endsWith
EndsWith(line, suffix) ==
  /\ Len(suffix) <= Len(line)
  /\ SubSeq(line, Len(line) - Len(suffix) + 1, Len(line)) = suffix

\* const inc = (key, by = 1) => ...
inc(stats, key, by) ==
  IF \E k \in 1..Len(stats) : stats[k].key = key
  THEN [k \in 1..Len(stats) |->
          IF stats[k].key = key THEN [stats[k] EXCEPT !.count = @ + by] ELSE stats[k]]
  ELSE Append(stats, [key |-> key, count |-> by])

\* a fence line closes whatever fence is open
closesAnyFence(marker, fenceMarker) == TRUE

\* marker === fenceMarker
closesFence(marker, fenceMarker) == marker = fenceMarker

\* line.match(/^\s*(```+|~~~+)/): the fence character when the line matches,
\* "" when it does not
fenceMatch(line) ==
  LET w == CountRun(line, 1, Whitespace)
  IN  IF CountRun(line, w + 1, { BQ }) >= 3 THEN BQ
      ELSE IF CountRun(line, w + 1, { "~" }) >= 3 THEN "~"
      ELSE ""

\* the fence state [inFence, fenceMarker] after a line that matches with marker
fenceStep(fence, marker) ==
  IF ~fence.inFence THEN [inFence |-> TRUE, fenceMarker |-> marker]
  ELSE IF closesFence(marker, fence.fenceMarker) THEN [inFence |-> FALSE, fenceMarker |-> ""]
  ELSE fence

NoFence == [inFence |-> FALSE, fenceMarker |-> ""]

\* the deepest heading level
maxHeading == 6

\* the widest indent of a heading
maxIndent == 3

Hashes(n) == [k \in 1..n |-> "#"]

\* replace(/^(\s{0,3})(#{1,6})\s+#{1,6}\s+(.+)$/, ...): w, h1, w1, h2, w2 are
\* the runs of whitespace, hashes, whitespace, hashes and whitespace the line
\* starts with
dupHeadRuns(r, w, h1, w1, h2, w2) ==
  IF /\ w <= maxIndent
     /\ h1 >= 1 /\ h1 <= maxHeading
     /\ w1 >= 1
     /\ h2 >= 1 /\ h2 <= maxHeading
     /\ w2 >= 1
     /\ (w + h1 + w1 + h2 + w2 < Len(r.line) \/ w2 >= 2)
  THEN [line |-> Take(r.line, w + h1) \o << " " >>
                 \o Trim(Drop(r.line, IF w + h1 + w1 + h2 + w2 < Len(r.line)
                                      THEN w + h1 + w1 + h2 + w2
                                      ELSE Len(r.line) - 1)),
        stats |-> inc(r.stats, "heading_duplicate_hashes", 1)]
  ELSE r

dupHead(r) ==
  LET w  == CountRun(r.line, 1, Whitespace)
      h1 == CountRun(r.line, w + 1, { "#" })
      w1 == CountRun(r.line, w + h1 + 1, Whitespace)
      h2 == CountRun(r.line, w + h1 + w1 + 1, { "#" })
      w2 == CountRun(r.line, w + h1 + w1 + h2 + 1, Whitespace)
  IN  dupHeadRuns(r, w, h1, w1, h2, w2)

\* replace(/^(\s*)(#{7,})\s+(\S.*)$/, ...)
capHeadRuns(r, w, h, w1) ==
  IF h > maxHeading /\ w1 >= 1 /\ w + h + w1 < Len(r.line)
  THEN [line |-> Take(r.line, w) \o Hashes(maxHeading) \o << " " >> \o Drop(r.line, w + h + w1),
        stats |-> inc(r.stats, "heading_cap_to_h6", 1)]
  ELSE r

capHead(r) ==
  LET w  == CountRun(r.line, 1, Whitespace)
      h  == CountRun(r.line, w + 1, { "#" })
      w1 == CountRun(r.line, w + h + 1, Whitespace)
  IN  capHeadRuns(r, w, h, w1)

\* a callback that counts every match
spacedCounting(r, m, desired, rest, key) ==
  [line |-> desired \o rest, stats |-> inc(r.stats, key, 1)]

\* the callback of the three spacing rules: desired replaces the matched text
\* m, counted when it differs
spaced(r, m, desired, rest, key) ==
  [line |-> desired \o rest,
   stats |-> IF m # desired THEN inc(r.stats, key, 1) ELSE r.stats]

\* replace(/^(\s{0,3})(#{1,6})[ \t]*(\S.*)$/, ...): p2 takes k hashes and b
\* blanks follow it
normHeadWith(r, w, k, b) ==
  spaced(r, r.line,
         Take(r.line, w + k) \o << " " >> \o Drop(r.line, w + k + b), << >>,
         "heading_space_normalize")

\* h hashes follow the indent w and b blanks follow them: (#{1,6}) takes all
\* of up to six hashes when a non-whitespace character follows the blanks, six
\* of more than six, and otherwise gives one hash back to (\S.*)
normHeadRuns(r, w, h, b) ==
  IF w > maxIndent \/ h < 1 THEN r
  ELSE IF h > maxHeading THEN normHeadWith(r, w, maxHeading, 0)
  ELSE IF w + h + b < Len(r.line) /\ r.line[w + h + b + 1] \notin Whitespace
  THEN normHeadWith(r, w, h, b)
  ELSE IF h >= 2 THEN normHeadWith(r, w, h - 1, 0)
  ELSE r

normHead(r) ==
  LET w == CountRun(r.line, 1, Whitespace)
      h == CountRun(r.line, w + 1, { "#" })
      b == CountRun(r.line, w + h + 1, Blanks)
  IN  normHeadRuns(r, w, h, b)

\* the marker of w + n characters is followed by b blanks and then, for a
\* match, by a non-whitespace character
markerSpaced(r, n, b, key) ==
  IF n + b < Len(r.line) /\ r.line[n + b + 1] \notin Whitespace
  THEN spaced(r, Take(r.line, n + b + 1),
              Take(r.line, n) \o << " ", r.line[n + b + 1] >>,
              Drop(r.line, n + b + 1), key)
  ELSE r

\* replace(/^(\s*)([-+*])[ \t]*(\S)/, ...)
listBullet(r) ==
  LET w == CountRun(r.line, 1, Whitespace)
  IN  IF w < Len(r.line) /\ r.line[w + 1] \in { "-", "+", "*" }
      THEN markerSpaced(r, w + 1, CountRun(r.line, w + 2, Blanks), "list_bullet_space")
      ELSE r

\* replace(/^(\s*)(\d+\.)[ \t]*(\S)/, ...)
listOrderedRuns(r, w, d) ==
  IF d >= 1 /\ w + d < Len(r.line) /\ r.line[w + d + 1] = "."
  THEN markerSpaced(r, w + d + 1, CountRun(r.line, w + d + 2, Blanks), "list_ordered_space")
  ELSE r

listOrdered(r) ==
  LET w == CountRun(r.line, 1, Whitespace)
  IN  listOrderedRuns(r, w, CountRun(r.line, w + 1, { Digits[k] : k \in 1..Len(Digits) }))

\* the five rules on one line outside a fence
fixLine(line, stats) ==
  listOrdered(listBullet(normHead(capHead(dupHead([line |-> line, stats |-> stats])))))

RECURSIVE firstPass(_, _, _, _)
RECURSIVE firstPassLine(_, _, _, _)
\* the first loop over the lines, from line i on
firstPass(lines, i, fence, stats) ==
  IF i > Len(lines) THEN [lines |-> lines, stats |-> stats]
  ELSE IF fenceMatch(lines[i]) # ""
  THEN firstPass(lines, i + 1, fenceStep(fence, fenceMatch(lines[i])), stats)
  ELSE IF fence.inFence THEN firstPass(lines, i + 1, fence, stats)
  ELSE firstPassLine(lines, i, fence, fixLine(lines[i], stats))

\* the rest of the first loop after the rules have made r of line i
firstPassLine(lines, i, fence, r) ==
  firstPass([lines EXCEPT ![i] = r.line], i + 1, fence, r.stats)

\* the fence state of the second loop at line i
fenceAt(fence, line) ==
  IF fenceMatch(line) # "" THEN fenceStep(fence, fenceMatch(line)) ELSE fence

\* a second loop that knows no hard line break
trimLineAlways(line) == TrimEnd(line, Blanks)

\* the second loop's treatment of a line outside a fence
trimLine(line) ==
  IF EndsWith(line, << " ", " " >>) /\ ~EndsWith(line, << " ", " ", " " >>) THEN line
  ELSE TrimEnd(line, Blanks)

RECURSIVE secondPass(_, _, _, _)
RECURSIVE secondPassLine(_, _, _, _)
\* the second loop over the lines, from line i on, fence the state before it
secondPass(lines, i, fence, trailingFixes) ==
  IF i > Len(lines) THEN [lines |-> lines, trailingFixes |-> trailingFixes]
  ELSE secondPassLine(lines, i, fenceAt(fence, lines[i]), trailingFixes)

\* the body of the second loop once the fence state of line i is known
secondPassLine(lines, i, fence, trailingFixes) ==
  IF fence.inFence \/ trimLine(lines[i]) = lines[i]
  THEN secondPass(lines, i + 1, fence, trailingFixes)
  ELSE secondPass([lines EXCEPT ![i] = trimLine(lines[i])], i + 1, fence, trailingFixes + 1)

\* return { text: lines.join('\n'), stats } for the results of the two loops
fixResult(first, second) ==
  [text |-> Join(second.lines, << LF >>),
   stats |-> IF second.trailingFixes > 0
             THEN inc(first.stats, "trim_trailing_whitespace", second.trailingFixes)
             ELSE first.stats]

fixMarkdownFormatting(text) ==
  LET first == firstPass(Split(text, << LF >>), 1, NoFence, << >>)
  IN  fixResult(first, secondPass(first.lines, 1, NoFence, 0))

(***************************************************************************)
(* The pattern history.                                                    *)
(***************************************************************************)

maxLen == 30

generatePatternName(findText) ==
  IF Len(findText) <= maxLen THEN findText
  ELSE SubSeq(findText, 1, maxLen) \o << ".", ".", "." >>

RECURSIVE SelectSeq2(_, _)
SelectSeq2(seq, keep) ==
  IF seq = << >> THEN << >>
  ELSE IF keep[1] THEN << Head(seq) >> \o SelectSeq2(Tail(seq), Tail(keep))
  ELSE SelectSeq2(Tail(seq), Tail(keep))

\* savedPatterns.filter(p => p.isPinned === pinned)
filterPinned(patterns, pinned) ==
  SelectSeq2(patterns, [k \in 1..Len(patterns) |-> patterns[k].isPinned = pinned])

RECURSIVE insertByLastUsed(_, _)
insertByLastUsed(sorted, p) ==
  IF sorted = << >> THEN << p >>
  ELSE IF Head(sorted).lastUsed >= p.lastUsed
    THEN << Head(sorted) >> \o insertByLastUsed(Tail(sorted), p)
  ELSE << p >> \o sorted

RECURSIVE sortByLastUsed(_, _)
\* unpinned.sort((a, b) => b.lastUsed - a.lastUsed): a stable sort, newest first
sortByLastUsed(patterns, acc) ==
  IF patterns = << >> THEN acc
  ELSE sortByLastUsed(Tail(patterns), insertByLastUsed(acc, Head(patterns)))

\* a pruning that keeps the newest maxHistorySize entries, pinned or not
pruneHistoryAll(s) ==
  IF Len(filterPinned(s.savedPatterns, FALSE)) > s.maxHistorySize
  THEN [s EXCEPT !.savedPatterns =
          SubSeq(sortByLastUsed(s.savedPatterns, << >>), 1, s.maxHistorySize)]
  ELSE s

\* pruneHistory(): s is this.settings
pruneHistory(s) ==
  LET pinned == filterPinned(s.savedPatterns, TRUE)
      unpinned == filterPinned(s.savedPatterns, FALSE)
  IN  IF Len(unpinned) > s.maxHistorySize
      THEN [s EXCEPT !.savedPatterns =
              pinned \o SubSeq(sortByLastUsed(unpinned, << >>), 1, s.maxHistorySize)]
      ELSE s

\* a lookup that never finds an entry
existingIndexNone(patterns, findText, replaceText, useRegEx, caseInsensitive) == 0

\* findIndex of the entry with the same 4-tuple, 0 when there is none
existingIndexOf(patterns, findText, replaceText, useRegEx, caseInsensitive) ==
  LET hits == { k \in 1..Len(patterns) :
                  /\ patterns[k].findText = findText
                  /\ patterns[k].replaceText = replaceText
                  /\ patterns[k].useRegEx = useRegEx
                  /\ patterns[k].caseInsensitive = caseInsensitive }
  IN  IF hits = {} THEN 0 ELSE CHOOSE k \in hits : \A j \in hits : k <= j

\* a splice that removes nothing
keepAt(seq, k) == seq

RemoveAt(seq, k) == SubSeq(seq, 1, k - 1) \o SubSeq(seq, k + 1, Len(seq))

\* t is Date.now(), rnd the random suffix of a new id
savePattern(s, t, rnd, findText, replaceText, useRegEx, caseInsensitive) ==
  LET existingIndex == existingIndexOf(s.savedPatterns, findText, replaceText,
                                       useRegEx, caseInsensitive)
  IN  IF existingIndex # 0
      THEN LET pattern == [s.savedPatterns[existingIndex] EXCEPT
                             !.lastUsed = t, !.useCount = @ + 1]
           IN  [s EXCEPT !.savedPatterns =
                  << pattern >> \o RemoveAt(s.savedPatterns, existingIndex)]
      ELSE LET newPattern == [id |-> << t, rnd >>,
                              name |-> generatePatternName(findText),
                              findText |-> findText,
                              replaceText |-> replaceText,
                              useRegEx |-> useRegEx,
                              caseInsensitive |-> caseInsensitive,
                              isPinned |-> FALSE,
                              lastUsed |-> t,
                              useCount |-> 1]
           IN  pruneHistory([s EXCEPT !.savedPatterns = << newPattern >> \o @])

\* a delete that empties the history
deletePatternAll(s, patternId) == [s EXCEPT !.savedPatterns = << >>]

\* savedPatterns.filter(p => p.id !== patternId)
deletePattern(s, patternId) ==
  [s EXCEPT !.savedPatterns = SelectSeq(@, LAMBDA p : p.id # patternId)]

\* savedPatterns.find(p => p.id === patternId), then isPinned = !isPinned
togglePinPattern(s, patternId) ==
  LET hits == { k \in 1..Len(s.savedPatterns) : s.savedPatterns[k].id = patternId }
  IN  IF hits = { } THEN s
      ELSE LET first == CHOOSE k \in hits : \A j \in hits : k <= j
           IN  [s EXCEPT !.savedPatterns[first].isPinned = ~@]

\* the largest history size the settings tab accepts
maxHistoryCeiling == 100

\* onChange of 'Max History Size' for a text that parseInt reads as num
setMaxHistorySize(s, num) ==
  IF num > 0 /\ num <= maxHistoryCeiling
  THEN pruneHistory([s EXCEPT !.maxHistorySize = num])
  ELSE s

\* onClick of 'Clear All'
clearAllPatterns(s) == [s EXCEPT !.savedPatterns = << >>]

(***************************************************************************)
(* The state: the plugin's settings record, the host editor (document and  *)
(* selected range), the find/replace modal, and what the user can observe  *)
(* of a commit (the editor mutations issued, the notice, an uncaught       *)
(* exception).                                                             *)
(***************************************************************************)
VARIABLES
  settings,   \* RfrPluginSettings, shared by the plugin and the modal
  doc,        \* editor.getValue()
  selFrom,    \* the selected range of doc, empty when selTo < selFrom
  selTo,
  pc,         \* the modal: "new", "open", "confirm" (inside confirm() of
              \* Replace All) or "closed"
  modal,      \* the modal's components and closure variables
  writes,     \* the editor mutations issued since the modal opened
  notice,     \* the Notice the last handler showed
  fault,      \* the last handler ended by an uncaught exception
  click,      \* the course of the last handler when it was a click on a button
  opened,     \* settings, document and selection when the modal opened
  now,        \* Date.now()
  sub,        \* a call of generateMatchPreviews on its own: arguments and result
  last        \* the last history operation or editor command: its name, its
              \* argument and the settings (or the document) it found

vars == << settings, doc, selFrom, selTo, pc, modal, writes, notice, fault, click, opened, now, sub, last >>

\* the number of show-more clicks of a session
MaxShowMore == 2

\* the length of the one-line document that has more matches than the ceiling
\* of the preview admits
MaxLine == 52

\* a line of MaxLine times `a'
LongLine == [k \in 1..MaxLine |-> "a"]

\* a document of two lines: with the i flag `a' occurs three times in it (twice
\* in the selectable range), without it twice (once in the range); and the
\* long line
Docs == { << "a", "A", LF, "a" >>, LongLine }

\* what the user types into the find field: nothing, a text that occurs, one
\* that does not, one that is no regular expression, and the escape \n
FindTexts == { << >>, << "a" >>, << "q" >>, << "[" >>, << BS, "n" >> }

ReplaceTexts == { << "b" >>, << BS, "n" >> }

\* the selected ranges: nothing, or the first two characters
Selections == { << 1, 0 >>, << 1, 2 >> }

Thresholds == { 2 }

\* the configured preview limit: one record, or five below the ceiling
PreviewLimits == { 1, 45 }

RandomSuffixes == { "r" }

\* the pattern history when the modal is constructed: empty, or one entry
\* recorded by an earlier replacement of `a' by `b'
Histories ==
  { << >>,
    << [id |-> << 0, "r" >>, name |-> << "a" >>, findText |-> << "a" >>,
        replaceText |-> << "b" >>, useRegEx |-> TRUE, caseInsensitive |-> TRUE,
        isPinned |-> FALSE, lastUsed |-> 0, useCount |-> 1] >> }

DEFAULT_SETTINGS ==
  [findText |-> << >>, replaceText |-> << >>, useRegEx |-> TRUE, selOnly |-> FALSE,
   caseInsensitive |-> TRUE, multilineMatch |-> TRUE, processLineBreak |-> FALSE,
   processTab |-> FALSE, prefillFind |-> FALSE, savedPatterns |-> << >>,
   maxHistorySize |-> 10, showPreview |-> TRUE, previewLimit |-> 5,
   confirmLargeReplace |-> TRUE, largeReplaceThreshold |-> 20]

\* the hard ceiling of the preview and the page of a show-more click
previewCeiling == 50

showMoreStep == 10

\* a preview without the ceiling
uncapped(a, b) == a

Min(a, b) == IF a < b THEN a ELSE b

\* editor.getSelection()
getSelection(d, from, to) == SubSeq(d, from, to)

NoNotice == [kind |-> "none", count |-> 0, scope |-> ""]

\* 'Nothing to search for!'
NothingNotice == [kind |-> "nothing", count |-> 0, scope |-> ""]

\* the result string 'No match'
NoMatchResult == [kind |-> "nomatch", count |-> 0, scope |-> ""]

\* `Made ${count} replacement(s) in ${scope}`
MadeResult(count, scope) == [kind |-> "made", count |-> count, scope |-> scope]

\* the rest of updatePreview once generateMatchPreviews has returned g
renderPreview(m, g, limit) ==
  IF g.totalCount = 0
  THEN [m EXCEPT !.previewTitle = [kind |-> "nomatches", count |-> 0, scope |-> ""],
                 !.previewContent = << >>,
                 !.showMore = FALSE,
                 !.currentPreviewLimit = limit]
  ELSE [m EXCEPT !.previewTitle =
                   [kind |-> "matches", count |-> g.totalCount,
                    scope |-> IF m.selToggle THEN "selection" ELSE "document"],
                 !.previewContent = g.previews,
                 !.showMore = g.totalCount > Len(g.previews),
                 !.currentPreviewLimit = limit]

\* an updatePreview that never resets the limit
keepCurrentLimit(m, s, keepLimit) == m.currentPreviewLimit

\* if (!keepLimit) currentPreviewLimit = this.settings.previewLimit
resetLimit(m, s, keepLimit) == IF keepLimit THEN m.currentPreviewLimit ELSE s.previewLimit

\* const updatePreview = (keepLimit = false) => ...
updatePreview(m, s, d, from, to, keepLimit) ==
  IF ~s.showPreview THEN m
  ELSE IF m.findInput = << >>
    THEN [m EXCEPT !.previewTitle = [kind |-> "enter", count |-> 0, scope |-> ""],
                   !.previewContent = << >>,
                   !.showMore = FALSE,
                   !.currentPreviewLimit = s.previewLimit]
  ELSE
    renderPreview(m,
      generateMatchPreviews(
        IF m.selToggle /\ ~m.noSelection THEN getSelection(d, from, to) ELSE d,
        expandEscapes(m.findInput, s.processLineBreak, s.processTab),
        expandEscapes(m.replaceInput, s.processLineBreak, s.processTab),
        m.regToggle, s.caseInsensitive, s.multilineMatch,
        Min(resetLimit(m, s, keepLimit), previewCeiling)),
      resetLimit(m, s, keepLimit))

\* the count of the confirmation gate of Replace All
gateTotalCount(m, s, d, from, to) ==
  generateMatchPreviews(
    IF m.selToggle /\ ~m.noSelection THEN getSelection(d, from, to) ELSE d,
    m.findInput, m.replaceInput, m.regToggle,
    s.caseInsensitive, s.multilineMatch, 1).totalCount

\* a gate that asks only above the threshold
needsConfirmationAbove(s, totalCount) == totalCount > s.largeReplaceThreshold

\* if (totalCount >= this.settings.largeReplaceThreshold) confirm(...)
needsConfirmation(s, totalCount) == totalCount >= s.largeReplaceThreshold

Write(op, text) == [op |-> op, text |-> text]

\* a commit that always replaces the whole document
scopeWriteDocument(selOnly, text) == << Write("setValue", text) >>

\* the one editor mutation of a commit: editor.setValue or editor.replaceSelection
scopeWrite(selOnly, text) ==
  << Write(IF ~selOnly THEN "setValue" ELSE "replaceSelection", text) >>

\* the editor mutations performReplacement issues, in order; scopeText is the
\* document or the selection, rresult the matches of the regex in it
commitWrites(useRegEx, selOnly, scopeText, rresult, searchString, replaceString) ==
  IF useRegEx
  THEN IF rresult # << >>
       THEN scopeWrite(selOnly, ReplaceMatches(scopeText, rresult, 1, 1, replaceString))
       ELSE << >>
  ELSE scopeWrite(selOnly, Join(Split(scopeText, searchString), replaceString))

\* resultString of performReplacement
commitResult(useRegEx, selOnly, scopeText, rresult, searchString) ==
  IF useRegEx
  THEN IF rresult # << >>
       THEN MadeResult(Len(rresult), IF ~selOnly THEN "document" ELSE "selection")
       ELSE NoMatchResult
  ELSE MadeResult(Len(Split(scopeText, searchString)) - 1,
                  IF ~selOnly THEN "selection" ELSE "document")

\* the settings after performReplacement has run to its end
commitSettings(m, s, searchString, replaceString, resultString, t, rnd) ==
  IF resultString # NoMatchResult
  THEN savePattern([s EXCEPT !.findText = searchString,
                             !.replaceText = replaceString,
                             !.useRegEx = m.regToggle,
                             !.selOnly = m.selToggle],
                   t, rnd, searchString, m.replaceInput, m.regToggle, s.caseInsensitive)
  ELSE [s EXCEPT !.findText = searchString,
                 !.replaceText = replaceString,
                 !.useRegEx = m.regToggle,
                 !.selOnly = m.selToggle]

\* performReplacement from the regex/plain-text branch on: re is
\* new RegExp(searchString, currentFlags) and rresult scopeText.match(re)
replaceInScope(m, s, scopeText, rresult, searchString, replaceString, t, rnd) ==
  [threw |-> FALSE, closes |-> TRUE,
   notice |-> commitResult(m.regToggle, m.selToggle, scopeText, rresult, searchString),
   writes |-> commitWrites(m.regToggle, m.selToggle, scopeText, rresult, searchString,
                           replaceString),
   settings |-> commitSettings(m, s, searchString, replaceString,
                               commitResult(m.regToggle, m.selToggle, scopeText, rresult,
                                            searchString),
                               t, rnd)]

\* performReplacement once the escapes of both fields are expanded
performExpanded(m, s, scopeText, re, searchString, replaceString, t, rnd) ==
  IF m.regToggle /\ ~re.valid
  THEN [threw |-> TRUE, closes |-> FALSE, notice |-> NoNotice,
        writes |-> << >>, settings |-> s]
  ELSE replaceInScope(m, s, scopeText,
                      IF m.regToggle
                      THEN MatchAll(re, scopeText, s.caseInsensitive, s.multilineMatch)
                      ELSE << >>,
                      searchString, replaceString, t, rnd)

\* const performReplacement = () => ...: what the call does, as a record
performReplacement(m, s, d, from, to, t, rnd) ==
  IF m.findInput = << >>
  THEN [threw |-> FALSE, closes |-> FALSE, notice |-> NothingNotice,
        writes |-> << >>, settings |-> s]
  ELSE performExpanded(m, s,
                       IF ~m.selToggle THEN d ELSE getSelection(d, from, to),
                       Compile(expandEscapes(m.findInput, s.processLineBreak, s.processTab)),
                       expandEscapes(m.findInput, s.processLineBreak, s.processTab),
                       expandEscapes(m.replaceInput, s.processLineBreak, s.processTab),
                       t, rnd)

RECURSIVE applyWrites(_, _)
\* the editor after the mutations ws: setValue replaces the document,
\* replaceSelection the selected range; either leaves nothing selected
applyWrites(e, ws) ==
  IF ws = << >> THEN e
  ELSE applyWrites(IF Head(ws).op = "setValue"
                   THEN [doc |-> Head(ws).text, selFrom |-> 1, selTo |-> 0]
                   ELSE [doc |-> SubSeq(e.doc, 1, e.selFrom - 1) \o Head(ws).text
                                 \o SubSeq(e.doc, e.selTo + 1, Len(e.doc)),
                         selFrom |-> e.selFrom + Len(Head(ws).text),
                         selTo |-> e.selFrom + Len(Head(ws).text) - 1],
                   Tail(ws))

(***************************************************************************)
(* The handlers of the modal.                                              *)
(***************************************************************************)

\* the modal's components before onOpen and after onClose (contentEl.empty())
ClosedModal ==
  [findInput |-> << >>, replaceInput |-> << >>, regToggle |-> FALSE,
   selToggle |-> FALSE, noSelection |-> TRUE, currentPreviewLimit |-> 0,
   previewTitle |-> NoNotice, previewContent |-> << >>, showMore |-> FALSE,
   moreClicks |-> 0]

\* a click on Cancel (gate = "cancelled") or on Replace All: how the gate
\* went, its count, whether performReplacement was called, and the find text,
\* replace text and switches of that moment
Click(gate, totalCount, executed, m) ==
  [gate |-> gate, totalCount |-> totalCount, executed |-> executed,
   findInput |-> m.findInput, replaceInput |-> m.replaceInput,
   regToggle |-> m.regToggle, selToggle |-> m.selToggle]

NoClick == Click("none", 0, FALSE, ClosedModal)

\* a call of generateMatchPreviews in regex mode, before (returned = FALSE) and
\* after it has returned
Call(text, searchString, replaceString, caseInsensitive, returned, previews, totalCount) ==
  [text |-> text, searchString |-> searchString, replaceString |-> replaceString,
   caseInsensitive |-> caseInsensitive, returned |-> returned, previews |-> previews,
   totalCount |-> totalCount]

NoCall == Call(<< >>, << >>, << >>, FALSE, FALSE, << >>, 0)

\* a history operation or an editor command that has run: arg is its argument,
\* before the settings (or the document) it found, result what it returned
Op(name, arg, before, result) ==
  [name |-> name, arg |-> arg, before |-> before, result |-> result]

NoOp == Op("none", << >>, << >>, << >>)

\* the sessions on the long line are those with the high preview limit, and
\* they start without a selection, a history or line break processing
LongSession(s, d, from, to) ==
  /\ (d = LongLine) = (s.previewLimit = 45)
  /\ d = LongLine => ~s.processLineBreak /\ s.savedPatterns = << >> /\ to < from

Init ==
  /\ settings \in { [DEFAULT_SETTINGS EXCEPT !.processLineBreak = plb,
                                             !.confirmLargeReplace = clr,
                                             !.largeReplaceThreshold = th,
                                             !.previewLimit = pl,
                                             !.savedPatterns = h] :
                      plb \in BOOLEAN, clr \in BOOLEAN, th \in Thresholds,
                      pl \in PreviewLimits, h \in Histories }
  /\ doc \in Docs
  /\ \E r \in Selections : selFrom = r[1] /\ selTo = r[2]
  /\ LongSession(settings, doc, selFrom, selTo)
  /\ pc = "new"
  /\ modal = ClosedModal
  /\ writes = << >>
  /\ notice = NoNotice
  /\ fault = FALSE
  /\ click = NoClick
  /\ opened = [settings |-> settings, doc |-> doc, selFrom |-> selFrom, selTo |-> selTo]
  /\ now = 1
  /\ sub = NoCall
  /\ last = NoOp

\* a handler that shows no notice, throws nothing and is no button click
Quiet ==
  /\ notice' = NoNotice
  /\ fault' = FALSE
  /\ click' = NoClick

\* onOpen(): the components are created and set from the settings, then the
\* first preview is rendered
OpenModal ==
  /\ pc = "new"
  /\ LET selection == getSelection(doc, selFrom, selTo)
         noSelection == selection = << >>
         prefill == settings.prefillFind /\ ~Includes(selection, << LF >>) /\ ~noSelection
         m == [findInput |-> IF prefill THEN selection ELSE settings.findText,
               replaceInput |-> settings.replaceText,
               regToggle |-> settings.useRegEx,
               selToggle |-> IF prefill \/ noSelection THEN FALSE ELSE settings.selOnly,
               noSelection |-> noSelection,
               currentPreviewLimit |-> settings.previewLimit,
               previewTitle |-> NoNotice,
               previewContent |-> << >>,
               showMore |-> FALSE,
               moreClicks |-> 0]
     IN  modal' = updatePreview(m, settings, doc, selFrom, selTo, FALSE)
  /\ pc' = "open"
  /\ Quiet
  /\ UNCHANGED << settings, doc, selFrom, selTo, writes, opened, now, sub, last >>

\* the 'input' listener of the find field
TypeFind(f) ==
  /\ pc = "open"
  /\ modal' = updatePreview([modal EXCEPT !.findInput = f], settings, doc, selFrom, selTo, FALSE)
  /\ Quiet
  /\ UNCHANGED << settings, doc, selFrom, selTo, pc, writes, opened, now, sub, last >>

\* the 'input' listener of the replace field
TypeReplace(r) ==
  /\ pc = "open"
  /\ modal' = updatePreview([modal EXCEPT !.replaceInput = r], settings, doc, selFrom, selTo, FALSE)
  /\ Quiet
  /\ UNCHANGED << settings, doc, selFrom, selTo, pc, writes, opened, now, sub, last >>

\* regToggleComponent.onChange
ToggleRegex ==
  /\ pc = "open"
  /\ modal' = updatePreview([modal EXCEPT !.regToggle = ~@], settings, doc, selFrom, selTo, FALSE)
  /\ Quiet
  /\ UNCHANGED << settings, doc, selFrom, selTo, pc, writes, opened, now, sub, last >>

\* selToggleComponent.onChange; the switch is not shown without a selection
ToggleSelection ==
  /\ pc = "open"
  /\ ~modal.noSelection
  /\ modal' = updatePreview([modal EXCEPT !.selToggle = ~@], settings, doc, selFrom, selTo, FALSE)
  /\ Quiet
  /\ UNCHANGED << settings, doc, selFrom, selTo, pc, writes, opened, now, sub, last >>

\* the settings after a click on the m flag, and on the i flag
clickFlagM(s) == [s EXCEPT !.multilineMatch = ~@]

clickFlagI(s) == [s EXCEPT !.caseInsensitive = ~@]

\* the flags are shown, and so clickable, while the regex switch is on
ClickFlagM ==
  /\ pc = "open"
  /\ modal.regToggle
  /\ settings' = clickFlagM(settings)
  /\ modal' = updatePreview(modal, settings', doc, selFrom, selTo, FALSE)
  /\ Quiet
  /\ UNCHANGED << doc, selFrom, selTo, pc, writes, opened, now, sub, last >>

ClickFlagI ==
  /\ pc = "open"
  /\ modal.regToggle
  /\ settings' = clickFlagI(settings)
  /\ modal' = updatePreview(modal, settings', doc, selFrom, selTo, FALSE)
  /\ Quiet
  /\ UNCHANGED << doc, selFrom, selTo, pc, writes, opened, now, sub, last >>

\* showMoreBtn.onclick
ShowMore ==
  /\ pc = "open"
  /\ modal.showMore
  /\ modal.moreClicks < MaxShowMore
  /\ modal' = updatePreview([modal EXCEPT !.currentPreviewLimit = @ + showMoreStep,
                                          !.moreClicks = @ + 1],
                            settings, doc, selFrom, selTo, TRUE)
  /\ Quiet
  /\ UNCHANGED << settings, doc, selFrom, selTo, pc, writes, opened, now, sub, last >>

\* the saved pattern with the id: this.settings.savedPatterns.find(p => p.id === patternId)
savedPattern(s, patternId) ==
  s.savedPatterns[CHOOSE k \in 1..Len(s.savedPatterns) :
                    /\ s.savedPatterns[k].id = patternId
                    /\ \A j \in 1..(k - 1) : s.savedPatterns[j].id # patternId]

\* the components after the dropdown's onChange has set them from the pattern
loadPattern(m, pattern) ==
  [m EXCEPT !.findInput = pattern.findText,
            !.replaceInput = pattern.replaceText,
            !.regToggle = pattern.useRegEx]

\* dropdownComponent.onChange with the id of a saved pattern: the dropdown is
\* there when the history was not empty at onOpen; setValue of a text field
\* fires no 'input' event, setValue of the regex switch calls its onChange
\* and so updatePreview()
SelectPattern(patternId) ==
  /\ pc = "open"
  /\ opened.settings.savedPatterns # << >>
  /\ \E k \in 1..Len(settings.savedPatterns) : settings.savedPatterns[k].id = patternId
  /\ modal' = updatePreview(loadPattern(modal, savedPattern(settings, patternId)),
                            settings, doc, selFrom, selTo, FALSE)
  /\ Quiet
  /\ UNCHANGED << settings, doc, selFrom, selTo, pc, writes, opened, now, sub, last >>

\* a Cancel that keeps the texts of the two fields for the next session
cancelClickKeeping(s, m) == [s EXCEPT !.findText = m.findInput, !.replaceText = m.replaceInput]

\* the settings after the Cancel handler
cancelClick(s, m) == s

\* cancelButtonComponent.onClick
Cancel ==
  /\ pc = "open"
  /\ pc' = "closed"
  /\ settings' = cancelClick(settings, modal)
  /\ click' = Click("cancelled", 0, FALSE, modal)
  /\ modal' = ClosedModal
  /\ notice' = NoNotice
  /\ fault' = FALSE
  /\ UNCHANGED << doc, selFrom, selTo, writes, opened, now, sub, last >>

\* the editor after the writes of performReplacement
Editor(e) ==
  /\ doc' = e.doc
  /\ selFrom' = e.selFrom
  /\ selTo' = e.selTo

\* the state after performReplacement has done out
Performed(out, gate, totalCount) ==
  /\ settings' = out.settings
  /\ Editor(applyWrites([doc |-> doc, selFrom |-> selFrom, selTo |-> selTo], out.writes))
  /\ writes' = writes \o out.writes
  /\ notice' = out.notice
  /\ fault' = out.threw
  /\ pc' = IF out.closes THEN "closed" ELSE "open"
  /\ modal' = IF out.closes THEN ClosedModal ELSE modal
  /\ click' = Click(gate, totalCount, TRUE, modal)

\* performReplacement() called from the Replace All handler
Perform(gate, totalCount, rnd) ==
  Performed(performReplacement(modal, settings, doc, selFrom, selTo, now, rnd),
            gate, totalCount)

\* the confirmation gate of Replace All for the count totalCount
Gate(totalCount, rnd) ==
  IF needsConfirmation(settings, totalCount)
  THEN /\ pc' = "confirm"
       /\ click' = Click("asked", totalCount, FALSE, modal)
       /\ notice' = NoNotice
       /\ fault' = FALSE
       /\ UNCHANGED << settings, doc, selFrom, selTo, modal, writes >>
  ELSE Perform("passed", totalCount, rnd)

\* a Replace All handler that does not look at the find text
nothingToSearchNever(m) == FALSE

\* if (!searchString) in the Replace All handler
nothingToSearch(m) == m.findInput = << >>

\* submitButtonComponent.onClick, up to the confirm() dialog when it is shown
SubmitClick(rnd) ==
  /\ pc = "open"
  /\ IF nothingToSearch(modal)
     THEN /\ notice' = NothingNotice
          /\ fault' = FALSE
          /\ click' = Click("blocked", 0, FALSE, modal)
          /\ UNCHANGED << settings, doc, selFrom, selTo, pc, modal, writes >>
     ELSE IF ~settings.confirmLargeReplace
     THEN Perform("off", 0, rnd)
     ELSE Gate(gateTotalCount(modal, settings, doc, selFrom, selTo), rnd)
  /\ UNCHANGED << opened, now, sub, last >>

\* the answer to confirm(), and the rest of the Replace All handler
ConfirmAnswer(confirmed, rnd) ==
  /\ pc = "confirm"
  /\ IF confirmed
     THEN Perform("confirmed", click.totalCount, rnd)
     ELSE /\ pc' = "open"
          /\ click' = [click EXCEPT !.gate = "declined"]
          /\ UNCHANGED << settings, doc, selFrom, selTo, modal, writes, notice, fault >>
  /\ UNCHANGED << opened, now, sub, last >>

Next ==
  \/ OpenModal
  \/ \E f \in FindTexts : TypeFind(f)
  \/ \E r \in ReplaceTexts : TypeReplace(r)
  \/ ToggleRegex
  \/ ToggleSelection
  \/ ClickFlagM
  \/ ClickFlagI
  \/ ShowMore
  \/ \E patternId \in { << 0, rnd >> : rnd \in RandomSuffixes } : SelectPattern(patternId)
  \/ Cancel
  \/ \E rnd \in RandomSuffixes : SubmitClick(rnd)
  \/ \E confirmed \in BOOLEAN, rnd \in RandomSuffixes : ConfirmAnswer(confirmed, rnd)

Spec == Init /\ [][Next]_vars

(***************************************************************************)
(* The pattern history on its own: the plugin's savePattern, deletePattern *)
(* and togglePinPattern and the history controls of the settings tab,      *)
(* starting from an empty history.                                         *)
(***************************************************************************)

\* the number of savePattern calls
MaxRecords == 4

\* the 4-tuples recorded
HistTuples ==
  { [findText |-> f, replaceText |-> << "b" >>, useRegEx |-> TRUE, caseInsensitive |-> TRUE] :
      f \in { << "a" >>, << "q" >>, << "x" >> } }

\* the sizes typed into 'Max History Size'
HistSizes == { 0, 1, 2 }

\* the ids handed to deletePattern and togglePinPattern; no entry has the id
\* of time 0
HistIds == { << t, rnd >> : t \in 0..MaxRecords, rnd \in RandomSuffixes }

HistInit ==
  /\ settings \in { [DEFAULT_SETTINGS EXCEPT !.maxHistorySize = n] : n \in HistSizes \ { 0 } }
  /\ doc = << >>
  /\ selFrom = 1
  /\ selTo = 0
  /\ pc = "new"
  /\ modal = ClosedModal
  /\ writes = << >>
  /\ notice = NoNotice
  /\ fault = FALSE
  /\ click = NoClick
  /\ opened = [settings |-> settings, doc |-> doc, selFrom |-> selFrom, selTo |-> selTo]
  /\ now = 1
  /\ sub = NoCall
  /\ last = NoOp

HistFrame ==
  UNCHANGED << doc, selFrom, selTo, pc, modal, writes, notice, fault, click, opened, sub >>

\* savePattern(findText, replaceText, useRegEx, caseInsensitive) at the time now
Record(tuple, rnd) ==
  /\ now <= MaxRecords
  /\ settings' = savePattern(settings, now, rnd, tuple.findText, tuple.replaceText,
                             tuple.useRegEx, tuple.caseInsensitive)
  /\ now' = now + 1
  /\ last' = Op("record", [tuple |-> tuple, t |-> now, rnd |-> rnd], settings, << >>)
  /\ HistFrame

DeletePattern(patternId) ==
  /\ settings' = deletePattern(settings, patternId)
  /\ last' = Op("delete", patternId, settings, << >>)
  /\ UNCHANGED now
  /\ HistFrame

TogglePinPattern(patternId) ==
  /\ settings' = togglePinPattern(settings, patternId)
  /\ last' = Op("togglePin", patternId, settings, << >>)
  /\ UNCHANGED now
  /\ HistFrame

SetMaxHistorySize(num) ==
  /\ settings' = setMaxHistorySize(settings, num)
  /\ last' = Op("setMax", num, settings, << >>)
  /\ UNCHANGED now
  /\ HistFrame

\* the button is shown while the history is not empty
ClearAll ==
  /\ settings.savedPatterns # << >>
  /\ settings' = clearAllPatterns(settings)
  /\ last' = Op("clear", << >>, settings, << >>)
  /\ UNCHANGED now
  /\ HistFrame

HistNext ==
  \/ \E tuple \in HistTuples, rnd \in RandomSuffixes : Record(tuple, rnd)
  \/ \E patternId \in HistIds : DeletePattern(patternId)
  \/ \E patternId \in HistIds : TogglePinPattern(patternId)
  \/ \E num \in HistSizes : SetMaxHistorySize(num)
  \/ ClearAll

HistSpec == HistInit /\ [][HistNext]_vars

(***************************************************************************)
(* The command 'Markdown: Check and Fix formatting' on its own, run on a   *)
(* document of a few lines.                                                *)
(***************************************************************************)

\* the number of lines of a document
MaxMdLines == 3

\* the number of times the command rewrites the document
MaxFixWrites == 2

MdLines ==
  { << BQ, BQ, BQ >>, << "~", "~", "~" >>,
    << "#", "#", "#", "#", "#", "#", "#", "#", " ", "a" >>,
    << "#", "a" >>, << "#", " ", "#", " ", "a" >>, << "#", " ", "#", " ", "#", " ", "a" >>,
    << "-", "a" >>, << "1", ".", "a" >>,
    << "a" >>, << "a", " " >>, << "a", " ", " " >>, << "a", " ", " ", " " >>,
    << "a", TAB >>, << "a", TAB, " ", " " >> }

RECURSIVE MdTexts(_)
\* the documents of n lines
MdTexts(n) ==
  IF n = 1 THEN MdLines
  ELSE { l \o << LF >> \o t : l \in MdLines, t \in MdTexts(n - 1) }

MdDocs == UNION { MdTexts(n) : n \in 1..MaxMdLines }

\* new Notice(msg || 'Markdown formatting fixes applied') for the stats shown
FixedNotice(stats) == [kind |-> "fixed", count |-> Len(stats), scope |-> "document"]

\* the notice of a document that needs no fix
NothingToFixNotice == [kind |-> "nothingToFix", count |-> 0, scope |-> "document"]

NormInit ==
  /\ settings = DEFAULT_SETTINGS
  /\ doc \in MdDocs
  /\ selFrom = 1
  /\ selTo = 0
  /\ pc = "new"
  /\ modal = ClosedModal
  /\ writes = << >>
  /\ notice = NoNotice
  /\ fault = FALSE
  /\ click = NoClick
  /\ opened = [settings |-> settings, doc |-> doc, selFrom |-> selFrom, selTo |-> selTo]
  /\ now = 1
  /\ sub = NoCall
  /\ last = NoOp

\* the editorCallback once fixMarkdownFormatting(doc) has returned fixed
FixCommand(fixed) ==
  /\ IF fixed.text # doc
     THEN /\ Editor(applyWrites([doc |-> doc, selFrom |-> selFrom, selTo |-> selTo],
                                << Write("setValue", fixed.text) >>))
          /\ writes' = Append(writes, Write("setValue", fixed.text))
          /\ notice' = FixedNotice(fixed.stats)
     ELSE /\ notice' = NothingToFixNotice
          /\ UNCHANGED << doc, selFrom, selTo, writes >>
  /\ last' = Op("fix", << >>, doc, fixed)
  /\ UNCHANGED << settings, pc, modal, fault, click, opened, now, sub >>

\* the command 'Markdown: Check and Fix formatting'
FixFormatting ==
  /\ Len(writes) < MaxFixWrites
  /\ FixCommand(fixMarkdownFormatting(doc))

NormNext == FixFormatting

NormSpec == NormInit /\ [][NormNext]_vars

(***************************************************************************)
(* The substitution of generateMatchPreviews on its own: one call in regex *)
(* mode for a text, a pattern and a replacement template.                  *)
(***************************************************************************)

\* the limit of the call
SubstLimit == 2

SubstTexts ==
  { << "a", "b" >>, << "x", "a", "b" >>, << "$", "$" >>, << "$", "1" >>, << BS, "a" >>,
    << "$", "1", "a", "b" >>, << "a", LF, "a" >> }

\* patterns with zero, one and two capture groups, and patterns that match
\* at the start of the text only or match the empty string
SubstFinds ==
  { << "a" >>, << ".", "." >>, << "(", "a", ")" >>, << "(", ".", ")", "." >>,
    << "(", "a", ")", "(", "b", ")" >>, << "^", "a" >>, << "^" >>, << "x", "*" >> }

SubstTemplates ==
  { << "$", "&" >>, << "$", "1" >>, << "$", "2" >>, << "$", "3" >>,
    << "x", "$", "2", "y" >>, << "$", "$" >>, << "$", "2", "$", "1" >>,
    << "$", "$", "1" >>, << "$", "$", "&" >>, << "$", BQ >>, << "$", SQ >> }

SubstInit ==
  /\ settings = DEFAULT_SETTINGS
  /\ doc = << >>
  /\ selFrom = 1
  /\ selTo = 0
  /\ pc = "new"
  /\ modal = ClosedModal
  /\ writes = << >>
  /\ notice = NoNotice
  /\ fault = FALSE
  /\ click = NoClick
  /\ opened = [settings |-> settings, doc |-> doc, selFrom |-> selFrom, selTo |-> selTo]
  /\ now = 1
  /\ last = NoOp
  /\ sub \in { Call(t, f, r, ci, FALSE, << >>, 0) :
                t \in SubstTexts, f \in SubstFinds, r \in SubstTemplates, ci \in BOOLEAN }

\* generateMatchPreviews(text, searchString, replaceString, true, ...)
Generate ==
  /\ ~sub.returned
  /\ LET g == generateMatchPreviews(sub.text, sub.searchString, sub.replaceString, TRUE,
                                     sub.caseInsensitive, FALSE, SubstLimit)
     IN  sub' = [sub EXCEPT !.returned = TRUE,
                            !.previews = g.previews,
                            !.totalCount = g.totalCount]
  /\ UNCHANGED << settings, doc, selFrom, selTo, pc, modal, writes, notice, fault,
                  click, opened, now, last >>

SubstNext == Generate

SubstSpec == SubstInit /\ [][SubstNext]_vars

(***************************************************************************)
(* What a finished commit was about, read off the state it leaves: the     *)
(* scope text, the find text as used, and the number of matches replaced.  *)
(***************************************************************************)

\* performReplacement ran to its end and closed the modal
Committed == pc = "closed" /\ click.executed

ScopeTextAtCommit ==
  IF click.selToggle THEN getSelection(opened.doc, opened.selFrom, opened.selTo)
  ELSE opened.doc

SearchAtCommit == expandEscapes(click.findInput, settings.processLineBreak, settings.processTab)

MatchCountAtCommit ==
  IF click.regToggle
  THEN Len(MatchAll(Compile(SearchAtCommit), ScopeTextAtCommit,
                    settings.caseInsensitive, settings.multilineMatch))
  ELSE Len(Split(ScopeTextAtCommit, SearchAtCommit)) - 1

\* the matches the gate counts for the texts and switches of the last click
CountedAtClick ==
  gateTotalCount([findInput |-> click.findInput, replaceInput |-> click.replaceInput,
                  regToggle |-> click.regToggle, selToggle |-> click.selToggle,
                  noSelection |-> getSelection(opened.doc, opened.selFrom, opened.selTo) = << >>],
                 settings, opened.doc, opened.selFrom, opened.selTo)

\* the find text of the modal, as used, is no regular expression
InvalidPatternTyped ==
  /\ modal.regToggle
  /\ modal.findInput # << >>
  /\ ~Compile(expandEscapes(modal.findInput, settings.processLineBreak,
                            settings.processTab)).valid

SettingsButFlags(s) ==
  [s EXCEPT !.caseInsensitive = TRUE, !.multilineMatch = TRUE]

(***************************************************************************)
(* The claims.                                                             *)
(***************************************************************************)

\* C1: a commit whose find pattern has no match in the chosen scope issues no
\* editor write at all, in regex mode and in plain-text mode, leaves the
\* document as it was and reports a count of zero.
C1_NoMatchNoWrite ==
  (Committed /\ MatchCountAtCommit = 0)
    => /\ writes = << >>
       /\ doc = opened.doc
       /\ notice.count = 0

\* C2: a commit that finds zero matches, in regex mode or in plain-text mode,
\* leaves savedPatterns unchanged.
C2_NoMatchNoHistory ==
  (Committed /\ MatchCountAtCommit = 0)
    => settings.savedPatterns = opened.settings.savedPatterns

\* C3: with confirmLargeReplace on, when the counted matches reach the
\* threshold (equality included) nothing is replaced before the user has
\* confirmed: while confirm() is open no write has been issued and the history
\* is untouched, performReplacement is called only after a confirmation, and
\* after a refusal document, selection and history are as they were, no write
\* has been issued and the modal is still open.
C3_GateBeforeReplace ==
  /\ pc = "confirm"
       => /\ writes = << >>
          /\ doc = opened.doc
          /\ settings.savedPatterns = opened.settings.savedPatterns
  /\ (click.executed /\ settings.confirmLargeReplace
        /\ CountedAtClick >= settings.largeReplaceThreshold)
       => click.gate = "confirmed"
  /\ click.gate = "declined"
       => /\ pc = "open"
          /\ writes = << >>
          /\ doc = opened.doc
          /\ selFrom = opened.selFrom /\ selTo = opened.selTo
          /\ settings.savedPatterns = opened.settings.savedPatterns

\* the user refuses a replacement of exactly threshold-many matches
C3_DeclinedAtThreshold ==
  /\ click.gate = "declined"
  /\ settings.confirmLargeReplace
  /\ CountedAtClick = settings.largeReplaceThreshold

\* C4: no handler of the modal, the live preview and Replace All included, ends
\* by an uncaught exception when the find text is no regular expression.
C4_NoUnhandledFault == ~fault

\* C5: the status shown for a find text that is no regular expression is never
\* the one shown for a valid pattern without matches.
C5_InvalidDistinctFromNoMatch ==
  (pc = "open" /\ settings.showPreview /\ InvalidPatternTyped)
    => modal.previewTitle.kind # "nomatches"

\* C6: the history entry a commit records holds the find text and the replace
\* text as the user typed them, whatever processLineBreak and processTab are.
C6_HistoryKeepsRawTexts ==
  (Committed /\ notice.kind = "made")
    => /\ settings.savedPatterns # << >>
       /\ settings.savedPatterns[1].findText = click.findInput
       /\ settings.savedPatterns[1].replaceText = click.replaceInput

\* C7: a commit that replaces at least one match issues exactly one editor
\* mutation, setValue for the document scope and replaceSelection for the
\* selection scope, however many matches there are.
C7_OneWriteToScope ==
  (Committed /\ MatchCountAtCommit >= 1)
    => /\ Len(writes) = 1
       /\ writes[1].op = IF click.selToggle THEN "replaceSelection" ELSE "setValue"

\* a commit in the selection scope that replaces several matches
C7_SeveralMatchesInSelection ==
  /\ Committed
  /\ click.selToggle
  /\ MatchCountAtCommit >= 2

\* the session was ended by Cancel, or its last click was refused at confirm()
CancelledOrDeclined ==
  \/ pc = "closed" /\ click.gate = "cancelled"
  \/ click.gate = "declined"

\* C8 as stated: a session that ends with Cancel or with a refused
\* confirmation leaves every field of the settings as it was when the modal
\* opened.
C8_SettingsOnlyOnCommit == CancelledOrDeclined => settings = opened.settings

\* C8 as amended: such a session leaves every field of the settings other
\* than caseInsensitive and multilineMatch as it was when the modal opened;
\* those two are written by a click on the i or m flag of the find field.
C8_SettingsButFlagsOnlyOnCommit ==
  CancelledOrDeclined => SettingsButFlags(settings) = SettingsButFlags(opened.settings)

\* a session in which the i flag was clicked is ended by Cancel
C8_CancelledAfterFlagClick ==
  /\ pc = "closed"
  /\ click.gate = "cancelled"
  /\ click.findInput # << >>
  /\ settings.caseInsensitive # opened.settings.caseInsensitive

\* the number of capture groups of the pattern of the call
GroupCount == Compile(sub.searchString).ngroups

\* every $ of the template starts a token $n with n greater than g
OutOfRangeOnly(template, g) ==
  /\ Includes(template, << "$" >>)
  /\ \A i \in 1..Len(template) :
       template[i] = "$" =>
         /\ i < Len(template)
         /\ IsDigit(template[i + 1])
         /\ DigitVal(template[i + 1]) > g

RECURSIVE StripTokens(_)
\* the template without its tokens $n
StripTokens(template) ==
  IF template = << >> THEN << >>
  ELSE IF Head(template) = "$" /\ Len(template) > 1
  THEN StripTokens(SubSeq(template, 3, Len(template)))
  ELSE << Head(template) >> \o StripTokens(Tail(template))

C10_AmpersandRoundTrip ==
  (sub.returned /\ sub.replaceString = << "$", "&" >>)
    => \A k \in 1..Len(sub.previews) :
         sub.previews[k].replacementText = sub.previews[k].matchedText

RECURSIVE PairsOnly(_)
\* every $ of the template belongs to a $$
PairsOnly(template) ==
  IF template = << >> THEN TRUE
  ELSE IF Head(template) = "$"
  THEN Len(template) >= 2 /\ template[2] = "$" /\ PairsOnly(SubSeq(template, 3, Len(template)))
  ELSE PairsOnly(Tail(template))

RECURSIVE Unpaired(_)
\* the template with one $ for every $$
Unpaired(template) ==
  IF template = << >> THEN << >>
  ELSE IF Head(template) = "$" /\ Len(template) >= 2
  THEN << "$" >> \o Unpaired(SubSeq(template, 3, Len(template)))
  ELSE << Head(template) >> \o Unpaired(Tail(template))

\* C11: every $$ of the replacement template yields exactly one literal $ in
\* the computed replacement, and that $ is not combined with the characters
\* after it into another token ($$1 yields the text $1), whatever capture
\* groups the match has.
C11_DollarDollarIsLiteral ==
  (sub.returned /\ Includes(sub.replaceString, << "$", "$" >>) /\ PairsOnly(sub.replaceString))
    => \A k \in 1..Len(sub.previews) :
         sub.previews[k].replacementText = Unpaired(sub.replaceString)

\* the template $$1 is substituted for a match that has a group 1
C11_DollarDollarBeforeGroupIndex ==
  /\ sub.returned
  /\ sub.replaceString = << "$", "$", "1" >>
  /\ GroupCount >= 1
  /\ sub.previews # << >>

\* the text a one-token template inserts for the preview p: the line before
\* the match, the line after it, or the matched text
InsertedText(template, p) ==
  IF template = << "$", BQ >> THEN SubSeq(p.lineContent, 1, p.matchStartInLine)
  ELSE IF template = << "$", SQ >>
  THEN SubSeq(p.lineContent, p.matchEndInLine + 1, Len(p.lineContent))
  ELSE p.matchedText

\* C20: the text a resolution step inserts (the line before the match for $BQ,
\* the line after it for $SQ, the matched text for $&) is not scanned again by
\* a later step: it appears verbatim in the final replacement.
C20_InsertedTextVerbatim ==
  (sub.returned /\ sub.replaceString \in { << "$", BQ >>, << "$", SQ >>, << "$", "&" >> })
    => \A k \in 1..Len(sub.previews) :
         sub.previews[k].replacementText = InsertedText(sub.replaceString, sub.previews[k])

(***************************************************************************)
(* The pattern history.                                                    *)
(***************************************************************************)

SameTuple(p, q) ==
  /\ p.findText = q.findText
  /\ p.replaceText = q.replaceText
  /\ p.useRegEx = q.useRegEx
  /\ p.caseInsensitive = q.caseInsensitive

\* the positions of the history h that hold the 4-tuple
PositionsOf(h, tuple) == { k \in 1..Len(h) : SameTuple(h[k], tuple) }

\* the last operation recorded a 4-tuple the history already held
RecordedExisting ==
  /\ last.name = "record"
  /\ PositionsOf(last.before.savedPatterns, last.arg.tuple) # { }

\* C12: recording a 4-tuple that already has an entry leaves the length of the
\* history unchanged and puts that entry at the front with useCount one
\* higher, lastUsed the current time and id, name and isPinned (and the tuple)
\* as they were.
C12_RecordExistingBumps ==
  RecordedExisting =>
    /\ Len(settings.savedPatterns) = Len(last.before.savedPatterns)
    /\ \E k \in PositionsOf(last.before.savedPatterns, last.arg.tuple) :
         settings.savedPatterns[1] =
           [last.before.savedPatterns[k] EXCEPT !.useCount = @ + 1,
                                                !.lastUsed = last.arg.t]

\* a tuple is recorded again while its entry is not at the front
C12_RecordedAgainFromBehind ==
  /\ RecordedExisting
  /\ 1 \notin PositionsOf(last.before.savedPatterns, last.arg.tuple)

\* C13: from an empty history, after any sequence of record, delete,
\* togglePin, max-size change and clear-all, no two entries hold the same
\* (findText, replaceText, useRegEx, caseInsensitive).
C13_TuplesUnique ==
  \A i, j \in 1..Len(settings.savedPatterns) :
    SameTuple(settings.savedPatterns[i], settings.savedPatterns[j]) => i = j

\* a tuple was recorded again into a history of several entries
C13_RecordedAgainAmongSeveral ==
  /\ RecordedExisting
  /\ Len(settings.savedPatterns) >= 2

\* the entries of the history h, pinned or unpinned
EntriesOf(h, pinned) == { h[k] : k \in { j \in 1..Len(h) : h[j].isPinned = pinned } }

\* the last operation ran pruneHistory: a record of a new tuple, or an accepted
\* change of the size
Pruned ==
  \/ last.name = "record" /\ ~RecordedExisting
  \/ last.name = "setMax" /\ last.arg > 0 /\ last.arg <= maxHistoryCeiling

\* the entry a record of a new tuple creates
NewEntry ==
  [id |-> << last.arg.t, last.arg.rnd >>,
   name |-> generatePatternName(last.arg.tuple.findText),
   findText |-> last.arg.tuple.findText,
   replaceText |-> last.arg.tuple.replaceText,
   useRegEx |-> last.arg.tuple.useRegEx,
   caseInsensitive |-> last.arg.tuple.caseInsensitive,
   isPinned |-> FALSE, lastUsed |-> last.arg.t, useCount |-> 1]

\* the history handed to that pruneHistory
PruneInput ==
  IF last.name = "record"
  THEN << NewEntry >> \o last.before.savedPatterns
  ELSE last.before.savedPatterns

\* C14: pruning removes no pinned entry; when the unpinned entries exceed
\* maxHistorySize it keeps exactly maxHistorySize of them, none older than a
\* discarded one, and otherwise it keeps them all.
C14_PruneKeepsPinnedAndNewest ==
  Pruned =>
    /\ EntriesOf(settings.savedPatterns, TRUE) = EntriesOf(PruneInput, TRUE)
    /\ Len(settings.savedPatterns) = Cardinality(EntriesOf(settings.savedPatterns, TRUE))
                                     + Cardinality(EntriesOf(settings.savedPatterns, FALSE))
    /\ EntriesOf(settings.savedPatterns, FALSE) \subseteq EntriesOf(PruneInput, FALSE)
    /\ IF Cardinality(EntriesOf(PruneInput, FALSE)) > settings.maxHistorySize
       THEN /\ Cardinality(EntriesOf(settings.savedPatterns, FALSE)) = settings.maxHistorySize
            /\ \A kept \in EntriesOf(settings.savedPatterns, FALSE) :
                 \A gone \in EntriesOf(PruneInput, FALSE) \ EntriesOf(settings.savedPatterns, FALSE) :
                   kept.lastUsed >= gone.lastUsed
       ELSE settings.savedPatterns = PruneInput

\* a record discards an unpinned entry while an older entry, pinned before,
\* stays
C14_PinnedOlderThanDiscarded ==
  /\ last.name = "record"
  /\ ~RecordedExisting
  /\ \E gone \in EntriesOf(PruneInput, FALSE) \ EntriesOf(settings.savedPatterns, FALSE) :
       \E kept \in EntriesOf(settings.savedPatterns, TRUE) : kept.lastUsed < gone.lastUsed

\* C15: in every state reachable by record, togglePin, delete, clear-all and
\* max-size changes the number of unpinned entries is at most maxHistorySize.
C15_UnpinnedWithinMax ==
  Len(filterPinned(settings.savedPatterns, FALSE)) <= settings.maxHistorySize

\* C16: delete(id) removes the entries with that id and leaves the others and
\* their order as they were; togglePin(id) flips isPinned of the entry with
\* that id and nothing else; with an id no entry has, both leave the history
\* as it was; neither touches another field of the settings.
C16_DeleteAndPinTouchOneEntry ==
  /\ last.name = "delete" =>
       settings = [last.before EXCEPT !.savedPatterns =
                     SelectSeq(@, LAMBDA p : p.id # last.arg)]
  /\ last.name = "togglePin" =>
       settings = [last.before EXCEPT !.savedPatterns =
                     [k \in 1..Len(@) |->
                        IF @[k].id = last.arg THEN [@[k] EXCEPT !.isPinned = ~@] ELSE @[k]]]
  /\ (last.name \in { "delete", "togglePin" }
        /\ \A k \in 1..Len(last.before.savedPatterns) :
             last.before.savedPatterns[k].id # last.arg)
       => settings = last.before

\* the second of three entries is deleted
C16_DeletedFromTheMiddle ==
  /\ last.name = "delete"
  /\ Len(last.before.savedPatterns) = 3
  /\ last.before.savedPatterns[2].id = last.arg

\* C17: a click on Replace All with an empty find text is blocked: the user is
\* notified, no editor write is issued, no history entry is recorded or
\* updated, no field of the settings changes, and the modal stays open as it
\* is.
C17_EmptyFindBlocksCommit ==
  [][ (pc = "open" /\ modal.findInput = << >> /\ click'.gate \notin { "none", "cancelled" })
        => /\ notice' = NothingNotice
           /\ ~fault'
           /\ writes' = writes
           /\ doc' = doc
           /\ settings' = settings
           /\ pc' = "open"
           /\ modal' = modal ]_vars

\* Replace All was clicked with an empty find text while the confirmation of
\* large replacements is on
C17_BlockedClick ==
  /\ click.gate = "blocked"
  /\ click.findInput = << >>
  /\ settings.confirmLargeReplace
  /\ pc = "open"

(***************************************************************************)
(* The Markdown normalizer.                                                *)
(***************************************************************************)

\* the lines the last run of the command found, and the lines it returned
LinesIn == Split(last.before, << LF >>)

LinesOut == Split(last.result.text, << LF >>)

RECURSIVE OpenBefore(_, _)
\* the kind of the fence that is open before line i (BQ or "~"), "" when none
\* is: a fence line opens a fence when none is open and closes the open one
\* when it is of its kind
OpenBefore(lines, i) ==
  IF i = 1 THEN ""
  ELSE IF fenceMatch(lines[i - 1]) = "" THEN OpenBefore(lines, i - 1)
  ELSE IF OpenBefore(lines, i - 1) = "" THEN fenceMatch(lines[i - 1])
  ELSE IF OpenBefore(lines, i - 1) = fenceMatch(lines[i - 1]) THEN ""
  ELSE OpenBefore(lines, i - 1)

\* line i lies inside an open fence and does not close it
StrictlyInside(lines, i) ==
  /\ OpenBefore(lines, i) # ""
  /\ fenceMatch(lines[i]) # OpenBefore(lines, i)

\* line i is no fence line and no fence is open
PlainOutside(lines, i) == OpenBefore(lines, i) = "" /\ fenceMatch(lines[i]) = ""

EightHashLine == << "#", "#", "#", "#", "#", "#", "#", "#", " ", "a" >>

\* C18: every line strictly inside an open fence is returned unchanged, a
\* fence opened with backticks being closed only by a line of three or more
\* backticks and one opened with tildes only by three or more tildes; the
\* 8-hash line that stays as it is inside a fence is capped to six hashes,
\* its text kept, outside one.
C18_FencedLinesUntouched ==
  last.name = "fix" =>
    /\ Len(LinesOut) = Len(LinesIn)
    /\ \A i \in 1..Len(LinesIn) :
         /\ StrictlyInside(LinesIn, i) => LinesOut[i] = LinesIn[i]
         /\ (PlainOutside(LinesIn, i) /\ LinesIn[i] = EightHashLine)
              => LinesOut[i] = << "#", "#", "#", "#", "#", "#", " ", "a" >>

\* the command has run on a backtick fence that holds a tilde line and, after
\* it, the 8-hash line
C18_TildeLineInsideBacktickFence ==
  /\ last.name = "fix"
  /\ LinesIn = << << BQ, BQ, BQ >>, << "~", "~", "~" >>, EightHashLine >>

\* line i as the first pass leaves it
AfterFirstPass(lines, i) ==
  IF PlainOutside(lines, i) THEN fixLine(lines[i], << >>).line ELSE lines[i]

\* the trailing run of spaces and tabs of a line
TrailingRun(line) == SubSeq(line, Len(TrimEnd(line, Blanks)) + 1, Len(line))

\* the count the stats hold for a key, 0 when they hold none
StatCount(stats, key) ==
  IF \E k \in 1..Len(stats) : stats[k].key = key
  THEN (CHOOSE c \in { stats[k].count : k \in { j \in 1..Len(stats) : stats[j].key = key } } : TRUE)
  ELSE 0

\* C19: in the trailing-whitespace pass a line outside a fence whose trailing
\* run is exactly two spaces is left unchanged, any other line ending in
\* spaces or tabs loses its whole trailing run, and trim_trailing_whitespace
\* is the number of lines so trimmed.
C19_TrailingRunTrimmedButTwoSpaces ==
  last.name = "fix" =>
    /\ \A i \in 1..Len(LinesIn) :
         PlainOutside(LinesIn, i) =>
           LinesOut[i] = IF TrailingRun(AfterFirstPass(LinesIn, i)) = << " ", " " >>
                         THEN AfterFirstPass(LinesIn, i)
                         ELSE TrimEnd(AfterFirstPass(LinesIn, i), Blanks)
    /\ StatCount(last.result.stats, "trim_trailing_whitespace")
         = Cardinality({ i \in 1..Len(LinesIn) : LinesOut[i] # AfterFirstPass(LinesIn, i) })

\* the number of spaces a line ends in
TrailingSpaces(line) == Len(line) - Len(TrimEnd(line, { " " }))

\* C19 as the code has it: in the trailing-whitespace pass a line outside a
\* fence that ends in exactly two spaces, whatever stands before them (a tab
\* included), is left unchanged, any other line loses its whole trailing run
\* of spaces and tabs, and trim_trailing_whitespace is the number of lines so
\* trimmed.
C19_TwoSpaceEndingKept ==
  last.name = "fix" =>
    /\ \A i \in 1..Len(LinesIn) :
         PlainOutside(LinesIn, i) =>
           LinesOut[i] = IF TrailingSpaces(AfterFirstPass(LinesIn, i)) = 2
                         THEN AfterFirstPass(LinesIn, i)
                         ELSE TrimEnd(AfterFirstPass(LinesIn, i), Blanks)
    /\ StatCount(last.result.stats, "trim_trailing_whitespace")
         = Cardinality({ i \in 1..Len(LinesIn) : LinesOut[i] # AfterFirstPass(LinesIn, i) })

\* the command has run on a line that ends in a tab and two spaces, kept, and
\* on one that ends in three spaces, trimmed
C19_TabThenTwoSpaces ==
  /\ last.name = "fix"
  /\ \E i, j \in 1..Len(LinesIn) :
       /\ PlainOutside(LinesIn, i) /\ PlainOutside(LinesIn, j)
       /\ LinesIn[i] = << "a", TAB, " ", " " >> /\ LinesOut[i] = LinesIn[i]
       /\ LinesIn[j] = << "a", " ", " ", " " >> /\ LinesOut[j] = << "a" >>

(***************************************************************************)
(* The preview of the modal.                                               *)
(***************************************************************************)

\* C21: in every state of a modal session the number of preview records
\* built is at most the smaller of the current preview limit and the ceiling
\* of 50.
C21_PreviewWithinLimitAndCeiling ==
  /\ Len(modal.previewContent) <= modal.currentPreviewLimit
  /\ Len(modal.previewContent) <= previewCeiling

\* a show-more click has taken the limit above the ceiling and the preview
\* holds as many records as the ceiling admits, of more matches
C21_CeilingReached ==
  /\ pc = "open"
  /\ modal.currentPreviewLimit > previewCeiling
  /\ Len(modal.previewContent) = previewCeiling
  /\ modal.previewTitle.count > previewCeiling

\* the find text, the replace text and the two switches of the modal
Inputs(m) == << m.findInput, m.replaceInput, m.regToggle, m.selToggle >>

\* C22: a show-more click raises the current preview limit by exactly 10 and
\* renders again with the inputs unchanged; a change of the find text, the
\* replace text, the regex switch or the selection switch sets the current
\* preview limit back to the configured previewLimit for the render it causes.
C22_ShowMoreAddsTenInputsReset ==
  [][(pc = "open" /\ pc' = "open") =>
       /\ modal'.moreClicks # modal.moreClicks =>
            /\ modal'.currentPreviewLimit = modal.currentPreviewLimit + showMoreStep
            /\ Inputs(modal') = Inputs(modal)
            /\ modal'.previewTitle = modal.previewTitle
            /\ Len(modal'.previewContent) >= Len(modal.previewContent)
       /\ Inputs(modal') # Inputs(modal) =>
            modal'.currentPreviewLimit = settings.previewLimit]_vars

\* an input has changed after a show-more click had raised the limit, and the
\* limit is the configured one again
C22_ResetAfterShowMore ==
  /\ pc = "open"
  /\ modal.moreClicks > 0
  /\ modal.findInput # << >>
  /\ modal.previewContent # << >>
  /\ modal.currentPreviewLimit = settings.previewLimit

\* C23: the match count the confirmation gate computes for a commit equals
\* the number of replacements that commit reports and makes, whatever the
\* scope text, the find text, the mode, the flags and the escape settings.
C23_GateCountIsCommitCount ==
  (Committed /\ click.gate \in { "passed", "confirmed" }) =>
    /\ click.totalCount = MatchCountAtCommit
    /\ click.totalCount = IF notice.kind = "made" THEN notice.count ELSE 0

\* C27: the status message of a commit names the scope that was written: it
\* says `in document' exactly when the document was replaced by setValue and
\* `in selection' exactly when the selection was replaced by
\* replaceSelection, in regex mode and in plain-text mode.
C27_NoticeNamesWrittenScope ==
  (Committed /\ notice.kind = "made") =>
    /\ writes # << >>
    /\ notice.scope = "document" <=> writes[Len(writes)].op = "setValue"
    /\ notice.scope = "selection" <=> writes[Len(writes)].op = "replaceSelection"

(***************************************************************************)
(* The records of one generateMatchPreviews call.                          *)
(***************************************************************************)

\* C24: generateMatchPreviews returns no more preview records than its
\* totalCount, so that totalCount - previews.length is never negative.
C24_PreviewsWithinTotalCount ==
  sub.returned => Len(sub.previews) <= sub.totalCount

\* C25: the preview records of one call are distinct matches: no two of them
\* have the same line number and the same match start, also for a pattern that
\* can match the empty string.
C25_PreviewRecordsDistinct ==
  sub.returned =>
    \A j, k \in 1..Len(sub.previews) :
      (/\ sub.previews[j].lineNumber = sub.previews[k].lineNumber
       /\ sub.previews[j].matchStartInLine = sub.previews[k].matchStartInLine) => j = k

\* C26: whenever the preview offers `Show more', a click on it strictly
\* increases the number of preview records shown (so that repeated clicks
\* come to show a record for every counted match).
C26_ShowMoreShowsMore ==
  [][(pc = "open" /\ modal.showMore /\ modal'.moreClicks = modal.moreClicks + 1) =>
       Len(modal'.previewContent) > Len(modal.previewContent)]_vars

\* C28: choosing a saved pattern in the modal restores the configuration it
\* was recorded under: after the choice the find text, the replace text, the
\* regex mode and the case-insensitive flag a commit would use are the
\* entry's findText, replaceText, useRegEx and caseInsensitive.
C28_SavedPatternRestoresItsKey ==
  [][\A k \in 1..Len(settings.savedPatterns) :
       SelectPattern(settings.savedPatterns[k].id) =>
         /\ modal'.findInput = settings.savedPatterns[k].findText
         /\ modal'.replaceInput = settings.savedPatterns[k].replaceText
         /\ modal'.regToggle = settings.savedPatterns[k].useRegEx
         /\ settings'.caseInsensitive = settings.savedPatterns[k].caseInsensitive]_vars

(***************************************************************************)
(* The normalizer as a function of the whole text.                         *)
(***************************************************************************)

\* C29: fixMarkdownFormatting is idempotent: normalizing the text it has
\* returned returns the same text and an empty stats list.
C29_NormalizerIdempotent ==
  last.name = "fix" =>
    fixMarkdownFormatting(last.result.text) = [text |-> last.result.text, stats |-> << >>]

\* C30: fixMarkdownFormatting returns a non-empty stats list, of counts
\* above zero, if and only if the text it returns differs from its input, so
\* that the caller's test text !== doc and the counts it reports agree.
C30_StatsIffTextDiffers ==
  last.name = "fix" =>
    /\ last.result.stats # << >> <=> last.result.text # last.before
    /\ \A k \in 1..Len(last.result.stats) : last.result.stats[k].count > 0
    /\ notice = IF last.result.stats # << >> THEN FixedNotice(last.result.stats)
                ELSE NothingToFixNotice

\* the command has run on a document with a heading the duplicate-hash rule
\* rewrote and the spacing rule then matched without a change, a line no rule
\* matched and a list item that got its space: two counters
C30_MatchedUnchangedAndRewritten ==
  /\ last.name = "fix"
  /\ LinesIn = << << "#", " ", "#", " ", "a" >>, << "a" >>, << "-", "a" >> >>
  /\ LinesOut = << << "#", " ", "a" >>, << "a" >>, << "-", " ", "a" >> >>
  /\ Len(last.result.stats) = 2

====
